---- MODULE Spec2Model ----
(***************************************************************************)
(* Model of the alloc_zeroed crate: carving zero-initialised values and    *)
(* slices out of a caller-supplied byte buffer (trait AllocZeroed) and     *)
(* from the heap (trait AllocZeroedBoxed).                                 *)
(*                                                                         *)
(* A buffer is a start address `base` and its bytes `buf` (a function on   *)
(* 0..len-1).  Machine words (usize) are UsizeBits wide; every usize       *)
(* computation of the code is done with the width the code gives it.       *)
(* A call is one atomic step: it records its inputs, its outcome and the   *)
(* buffer as it was before the call.  heap_requests lists the layouts      *)
(* asked of the global allocator.  In a chain of allocations `view` is the *)
(* part of the buffer the caller still holds (the last remainder) and      *)
(* `allocs` lists the regions handed out so far.  `derived` is the item    *)
(* the derive macro was applied to, with what the macro returned.          *)
(* `report` is an error value a caller built, then the inspection method   *)
(* called on it with what the method returned.                             *)
(*                                                                         *)
(* Two properties of the build decide what the code does where the         *)
(* language leaves it open: overflow_checks (an overflowing `*` panics or  *)
(* wraps) and ub_checks (the library's unsafe functions check their        *)
(* preconditions and abort, or do not check).                              *)
(***************************************************************************)
EXTENDS Integers, FiniteSets, Sequences, TLC

VARIABLES base, buf, overflow_checks, ub_checks, call, again, heap_requests,
          view, allocs, derived, report

vars ==
    <<base, buf, overflow_checks, ub_checks, call, again, heap_requests,
      view, allocs, derived, report>>

----------------------------------------------------------------------------
(* Bounds of the model *)

\* width of usize in bits
UsizeBits == 12
\* longest enumerated buffer
MaxLen == 7
\* most allocations in one chain
MaxChain == 4
\* most fields of an item the derive macro is applied to
MaxFields == 3
\* length of the large scenario buffer (doc examples use [0u8; 1024])
ScenarioLen == 1024

Modulus == 2 ^ UsizeBits
\* usize::MAX
MaxUsize == Modulus - 1
\* isize::MAX, the most bytes a slice may span
MaxIsize == Modulus \div 2 - 1

\* the two byte values the buffers are pre-filled with (0x00 and 0xFF)
Bytes == {0, 255}

\* (size, align) of the element types: two zero-sized types, u8, u16,
\* [u16; 2], u32.  size is a multiple of align, align a power of two.
Layouts ==
    { [size |-> 0, align |-> 1], [size |-> 0, align |-> 4],
      [size |-> 1, align |-> 1], [size |-> 2, align |-> 2],
      [size |-> 4, align |-> 2], [size |-> 4, align |-> 4] }

\* element counts a caller asks for: small ones, and ones whose byte total
\* does not fit a usize
Counts ==
    {0, 1, 2, 3, Modulus \div 4, Modulus \div 4 + 1, Modulus \div 2, MaxUsize}

\* start addresses: every residue modulo 4, and the top of the address space
Bases == {1024, 1025, 1026, 1027, MaxUsize - 2, MaxUsize}

\* addresses the global allocator hands out (0 is the null pointer)
HeapAddrs == {0, 64, 68, 70, 71}

----------------------------------------------------------------------------
(* Buffers *)

BufLen == Cardinality(DOMAIN buf)

\* the contents a buffer of length n can have before a call
Contents(n) == [0..(n - 1) -> Bytes]

----------------------------------------------------------------------------
(* Errors and outcomes *)

NoErr == [kind |-> "None"]

AlignmentFailed(required_alignment, address) ==
    [kind |-> "AlignmentFailed",
     required_alignment |-> required_alignment, address |-> address]

BufferTooSmall(required, available, alignment) ==
    [kind |-> "BufferTooSmall",
     required |-> required, available |-> available, alignment |-> alignment]

InvalidLayout(size, alignment) ==
    [kind |-> "InvalidLayout", size |-> size, alignment |-> alignment]

OutOfMemory(required, alignment) ==
    [kind |-> "OutOfMemory", required |-> required, alignment |-> alignment]

\* The call returned Err(e): nothing is allocated.
Err(e) ==
    [kind |-> "Err", err |-> e, ptr |-> 0, n |-> 0, off |-> 0, bytes |-> 0,
     hasRem |-> FALSE, remOff |-> 0, remLen |-> 0]

\* The call returned None (the body the derive macro generates).
Declined ==
    [kind |-> "None", err |-> NoErr, ptr |-> 0, n |-> 0, off |-> 0, bytes |-> 0,
     hasRem |-> FALSE, remOff |-> 0, remLen |-> 0]

\* The call did not return: the thread panicked.
Panic ==
    [kind |-> "Panic", err |-> NoErr, ptr |-> 0, n |-> 0, off |-> 0, bytes |-> 0,
     hasRem |-> FALSE, remOff |-> 0, remLen |-> 0]

\* The call did not return: the process aborted after the bytes
\* [off, off + bytes) of the buffer had been zero-filled.
Abort(off, bytes) ==
    [kind |-> "Abort", err |-> NoErr, ptr |-> 0, n |-> 0, off |-> off,
     bytes |-> bytes, hasRem |-> FALSE, remOff |-> 0, remLen |-> 0]

\* The call returned Ok: a typed slice of n elements at address ptr; the
\* bytes [off, off + bytes) of the buffer are the ones the call zero-fills;
\* the remainder, when returned, is [remOff, remOff + remLen).
Ok(ptr, n, off, bytes, remOff, remLen) ==
    [kind |-> "Ok", err |-> NoErr, ptr |-> ptr, n |-> n, off |-> off,
     bytes |-> bytes, hasRem |-> TRUE, remOff |-> remOff, remLen |-> remLen]

NoCall == [op |-> "none"]

----------------------------------------------------------------------------
(* usize arithmetic and the library calls the code makes *)

\* usize::saturating_sub
saturating_sub(a, b) == IF a >= b THEN a - b ELSE 0

\* `a * b` on usize in a build without overflow checks
wrapping_mul(a, b) == (a * b) % Modulus

\* <*mut u8>::align_offset(align): the count of bytes to add to addr to reach
\* the next multiple of align.  For a byte pointer the library computes it
\* as ((addr + (align - 1)) & -align) - addr, every step wrapping.
align_offset(addr, align) ==
    LET a_minus_one == align - 1
        sum == (addr + a_minus_one) % Modulus
        aligned_address == sum - (sum % align)
    IN  (aligned_address - addr) % Modulus

\* NonNull::<T>::dangling(): the address equal to T's alignment
dangling(align) == align

\* mutant of alloc_ptr: the slice is taken at the start of the buffer, the
\* alignment offset forgotten
alloc_ptr_unaligned(addr, offset) == addr

\* pointer `mem_ptr + offset` of the allocation
alloc_ptr(addr, offset) == (addr + offset) % Modulus

\* bytes left in the buffer after the alignment padding
available_bytes(len, offset) == saturating_sub(len, offset)

\* mutant of insufficient: a request that fills the available bytes exactly
\* is refused
insufficient_or_exact(available, total_bytes) == available <= total_bytes

\* the capacity check `available_bytes < total_bytes`
insufficient(available, total_bytes) == available < total_bytes

\* mutant of max_fit_count: an element that fits exactly is not counted
max_fit_count_exclusive(available, size) ==
    IF size = 0 THEN MaxUsize ELSE saturating_sub(available, 1) \div size

\* greatest number of complete elements in the available bytes
max_fit_count(available, size) ==
    IF size = 0 THEN MaxUsize ELSE available \div size

\* mutant of fill_zero: the fill starts at the start of the buffer and so
\* covers the alignment padding
fill_zero_from_start(mem, off, bytes) ==
    [i \in DOMAIN mem |-> IF i < off + bytes THEN 0 ELSE mem[i]]

\* alloc_slice.fill(0) on mem[off .. off + bytes]
fill_zero(mem, off, bytes) ==
    [i \in DOMAIN mem |-> IF off <= i /\ i < off + bytes THEN 0 ELSE mem[i]]

\* mutant of effect: the buffer is zeroed before the capacity check, so a
\* call that returns an error has written too
effect_before_check(mem, out) ==
    IF out.kind \in {"Ok", "Abort"} THEN fill_zero(mem, out.off, out.bytes)
    ELSE IF out.kind = "Err" THEN [i \in DOMAIN mem |-> 0]
    ELSE mem

\* the buffer after a call: only a call that returns Ok has written
effect(mem, out) ==
    IF out.kind \in {"Ok", "Abort"} THEN fill_zero(mem, out.off, out.bytes)
    ELSE mem

----------------------------------------------------------------------------
(* trait AllocZeroed, current revision *)

\* the split of the buffer, the zero fill and the typed slice.
\* slice::from_raw_parts_mut(ptr, count) requires size * count <= isize::MAX;
\* called with more it is undefined behaviour: a build with ub_checks aborts
\* there, after the fill; a build without them returns the slice.
\* mutant of split_and_fill: an allocation of no bytes hands the whole
\* buffer back as remainder, alignment padding included
split_and_fill_keep_padding(addr, len, size, offset, total_bytes, count) ==
    IF offset > len
    THEN Panic
    ELSE IF total_bytes > len - offset
    THEN Panic
    ELSE IF ub_checks /\ count > MaxIsize \div size
    THEN Abort(offset, total_bytes)
    ELSE IF total_bytes = 0
    THEN Ok(alloc_ptr(addr, offset), count, offset, 0, 0, len)
    ELSE Ok(alloc_ptr(addr, offset), count, offset, total_bytes,
            offset + total_bytes, len - offset - total_bytes)

split_and_fill(addr, len, size, offset, total_bytes, count) ==
    IF offset > len
    THEN Panic          \* mem.split_at_mut(offset): mid > len
    ELSE IF total_bytes > len - offset
    THEN Panic          \* after.split_at_mut(total_bytes): mid > len
    ELSE IF ub_checks /\ count > MaxIsize \div size
    THEN Abort(offset, total_bytes)
    ELSE Ok(alloc_ptr(addr, offset), count, offset, total_bytes,
            offset + total_bytes, len - offset - total_bytes)

\* mutant of alloc_zeroed_slice_with_remainder: the branch for zero-sized
\* types is missing, a zero-sized T is aligned and split like any other
alloc_zeroed_slice_with_remainder_no_zst(addr, len, size, align, count) ==
    LET offset == align_offset(addr, align) IN
    IF offset = MaxUsize
    THEN Err(AlignmentFailed(align, addr))
    ELSE LET available == available_bytes(len, offset) IN
         IF size * count > MaxUsize /\ overflow_checks
         THEN Panic
         ELSE LET total_bytes == wrapping_mul(size, count) IN
              IF insufficient(available, total_bytes)
              THEN Err(BufferTooSmall(total_bytes, available, align))
              ELSE IF offset > len
              THEN Panic
              ELSE Ok(alloc_ptr(addr, offset), count, offset, total_bytes,
                      offset + total_bytes, len - offset - total_bytes)

alloc_zeroed_slice_with_remainder(addr, len, size, align, count) ==
    IF size = 0
    THEN Ok(dangling(align), MaxUsize, 0, 0, 0, len)
    ELSE LET offset == align_offset(addr, align) IN
         IF offset = MaxUsize
         THEN Err(AlignmentFailed(align, addr))
         ELSE LET available == available_bytes(len, offset) IN
              IF size * count > MaxUsize /\ overflow_checks
              THEN Panic    \* attempt to multiply with overflow
              ELSE LET total_bytes == wrapping_mul(size, count) IN
                   IF insufficient(available, total_bytes)
                   THEN Err(BufferTooSmall(total_bytes, available, align))
                   ELSE split_and_fill(addr, len, size, offset, total_bytes, count)

\* slice.first_mut().unwrap()
first_mut_unwrap(out) ==
    IF out.kind # "Ok" THEN out
    ELSE IF out.n = 0 THEN Panic
    ELSE [out EXCEPT !.n = 1]

\* `let (x, _) = ...`: the remainder is dropped
drop_remainder(out) ==
    IF out.kind # "Ok" THEN out
    ELSE [out EXCEPT !.hasRem = FALSE, !.remOff = 0, !.remLen = 0]

\* mutant of alloc_zeroed_with_remainder: the element is the first of as
\* many as fit, not of a slice of one
alloc_zeroed_with_remainder_max_fit(addr, len, size, align) ==
    first_mut_unwrap(
        alloc_zeroed_slice_with_remainder(addr, len, size, align,
            max_fit_count(available_bytes(len, align_offset(addr, align)), size)))

alloc_zeroed_with_remainder(addr, len, size, align) ==
    first_mut_unwrap(alloc_zeroed_slice_with_remainder(addr, len, size, align, 1))

alloc_zeroed(addr, len, size, align) ==
    drop_remainder(alloc_zeroed_with_remainder(addr, len, size, align))

alloc_zeroed_slice(addr, len, size, align) ==
    LET offset == align_offset(addr, align)
        available == available_bytes(len, offset)
        count == max_fit_count(available, size)
    IN  drop_remainder(alloc_zeroed_slice_with_remainder(addr, len, size, align, count))

----------------------------------------------------------------------------
(* trait AllocZeroed, the earlier revision with its own single-value and   *)
(* max-fit algorithms                                                      *)

\* mutant of alloc_zeroed_direct: the branch for zero-sized types is
\* missing
alloc_zeroed_direct_no_zst(addr, len, size, align) ==
    LET offset == align_offset(addr, align) IN
    IF offset = MaxUsize
    THEN Err(AlignmentFailed(align, addr))
    ELSE IF size > saturating_sub(len, offset)
    THEN Err(BufferTooSmall(size, saturating_sub(len, offset), align))
    ELSE drop_remainder(Ok(alloc_ptr(addr, offset), 1, offset, size, 0, 0))

alloc_zeroed_direct(addr, len, size, align) ==
    LET offset == align_offset(addr, align) IN
    IF size = 0
    THEN drop_remainder(Ok(dangling(align), 1, 0, 0, 0, 0))
    ELSE IF offset = MaxUsize
    THEN Err(AlignmentFailed(align, addr))
    ELSE IF size > saturating_sub(len, offset)
    THEN Err(BufferTooSmall(size, saturating_sub(len, offset), align))
    ELSE drop_remainder(Ok(alloc_ptr(addr, offset), 1, offset, size, 0, 0))

alloc_zeroed_slice_direct(addr, len, size, align) ==
    IF size = 0
    THEN drop_remainder(Ok(dangling(align), MaxUsize, 0, 0, 0, 0))
    ELSE LET offset == align_offset(addr, align) IN
         IF offset = MaxUsize
         THEN Err(AlignmentFailed(align, addr))
         ELSE LET available == saturating_sub(len, offset) IN
              IF available < size
              THEN Err(BufferTooSmall(size, available, align))
              ELSE LET count == available \div size
                       total_bytes == count * size
                   IN  IF offset + total_bytes > len
                       THEN Panic      \* mem[offset..offset + total_bytes]
                       ELSE drop_remainder(
                              Ok(alloc_ptr(addr, offset), count, offset, total_bytes, 0, 0))

----------------------------------------------------------------------------
(* the alloc_zeroed body #[derive(AllocZeroed)] generates *)

\* `size > len - offset` with an unchecked subtraction: with offset > len a
\* build with overflow checks panics, one without them compares size with
\* the wrapped difference, goes on and writes size bytes at offset
alloc_zeroed_derived(addr, len, size, align) ==
    LET offset == align_offset(addr, align) IN
    IF offset = MaxUsize
    THEN Declined
    ELSE IF offset > len /\ overflow_checks
    THEN Panic          \* attempt to subtract with overflow
    ELSE IF size > (len - offset) % Modulus
    THEN Declined
    ELSE drop_remainder(Ok(alloc_ptr(addr, offset), 1, offset, size, 0, 0))

----------------------------------------------------------------------------
(* trait AllocZeroedBoxed *)

\* mutant of alloc_requests: a request that fails is made a second time
alloc_requests_retry(size, align, block) ==
    IF size = 0 THEN << >>
    ELSE IF block = 0
    THEN <<[size |-> size, align |-> align], [size |-> size, align |-> align]>>
    ELSE <<[size |-> size, align |-> align]>>

\* the requests alloc_zeroed_boxed makes of the global allocator:
\* std::alloc::alloc_zeroed(Layout::new::<Self>()), once, unless size is 0
alloc_requests(size, align, block) ==
    IF size = 0 THEN << >> ELSE <<[size |-> size, align |-> align]>>

\* mutant of alloc_zeroed_boxed: the branch for zero-sized types is missing
alloc_zeroed_boxed_no_zst(size, align, block) ==
    IF block = 0
    THEN Err(OutOfMemory(size, align))
    ELSE drop_remainder(Ok(block, 1, 0, 0, 0, 0))

\* mutant of alloc_zeroed_boxed: a null block is reported with the error
\* kind of the buffer path
alloc_zeroed_boxed_wrong_kind(size, align, block) ==
    IF size = 0
    THEN drop_remainder(Ok(dangling(align), 1, 0, 0, 0, 0))
    ELSE IF block = 0
    THEN Err(BufferTooSmall(size, 0, align))
    ELSE drop_remainder(Ok(block, 1, 0, 0, 0, 0))

\* block is what std::alloc::alloc_zeroed(layout) returns: 0 (null) or the
\* address of a zeroed block of layout.size() bytes aligned to layout.align()
alloc_zeroed_boxed(size, align, block) ==
    IF size = 0
    THEN drop_remainder(Ok(dangling(align), 1, 0, 0, 0, 0))
    ELSE IF block = 0
    THEN Err(OutOfMemory(size, align))
    ELSE drop_remainder(Ok(block, 1, 0, 0, 0, 0))

----------------------------------------------------------------------------
(* The state machine *)

BufferOps ==
    {"alloc_zeroed", "alloc_zeroed_with_remainder", "alloc_zeroed_slice",
     "alloc_zeroed_slice_with_remainder", "alloc_zeroed_direct",
     "alloc_zeroed_slice_direct"}

\* the buffer operation op on the buffer (addr, len)
invoke(op, addr, len, size, align, count) ==
    CASE op = "alloc_zeroed" -> alloc_zeroed(addr, len, size, align)
      [] op = "alloc_zeroed_with_remainder" ->
            alloc_zeroed_with_remainder(addr, len, size, align)
      [] op = "alloc_zeroed_slice" -> alloc_zeroed_slice(addr, len, size, align)
      [] op = "alloc_zeroed_slice_with_remainder" ->
            alloc_zeroed_slice_with_remainder(addr, len, size, align, count)
      [] op = "alloc_zeroed_direct" -> alloc_zeroed_direct(addr, len, size, align)
      [] op = "alloc_zeroed_slice_direct" ->
            alloc_zeroed_slice_direct(addr, len, size, align)
      [] op = "alloc_zeroed_derived" ->
            alloc_zeroed_derived(addr, len, size, align)

Init ==
    /\ \/ /\ base \in Bases
          /\ \E n \in 0..MaxLen : base + n <= MaxUsize /\ buf \in Contents(n)
       \/ /\ base = 1024
          /\ buf = [i \in 0..(ScenarioLen - 1) |-> 255]
    /\ overflow_checks \in BOOLEAN
    /\ ub_checks \in BOOLEAN
    /\ call = NoCall
    /\ again = NoCall
    /\ heap_requests = << >>
    /\ view = [off |-> 0, len |-> BufLen]
    /\ allocs = << >>
    /\ derived = NoCall
    /\ report = NoCall

\* one call of the buffer operation op for the layout l, with count c
Perform(op, l, c) ==
    LET out == invoke(op, base, BufLen, l.size, l.align, c) IN
    /\ call = NoCall
    /\ call' = [op |-> op, size |-> l.size, align |-> l.align, count |-> c,
                out |-> out, pre |-> buf]
    /\ buf' = effect(buf, out)
    /\ UNCHANGED <<base, overflow_checks, ub_checks, again, heap_requests,
                   view, allocs, derived, report>>

AllocZeroed == \E l \in Layouts : Perform("alloc_zeroed", l, 1)

AllocZeroedWithRemainder ==
    \E l \in Layouts : Perform("alloc_zeroed_with_remainder", l, 1)

AllocZeroedSlice == \E l \in Layouts : Perform("alloc_zeroed_slice", l, 0)

AllocZeroedSliceWithRemainder ==
    \E l \in Layouts, c \in Counts :
        Perform("alloc_zeroed_slice_with_remainder", l, c)

AllocZeroedDirect == \E l \in Layouts : Perform("alloc_zeroed_direct", l, 1)

AllocZeroedSliceDirect ==
    \E l \in Layouts : Perform("alloc_zeroed_slice_direct", l, 0)

AllocZeroedDerived == \E l \in Layouts : Perform("alloc_zeroed_derived", l, 1)

AllocZeroedBoxed ==
    \E l \in Layouts : \E block \in {a \in HeapAddrs : a % l.align = 0} :
        /\ call = NoCall
        /\ call' = [op |-> "alloc_zeroed_boxed", size |-> l.size,
                    align |-> l.align, count |-> 1,
                    out |-> alloc_zeroed_boxed(l.size, l.align, block),
                    pre |-> buf, block |-> block]
        /\ heap_requests' =
              heap_requests \o alloc_requests(l.size, l.align, block)
        /\ UNCHANGED <<base, buf, overflow_checks, ub_checks, again, view, allocs,
                       derived, report>>

\* the caller makes the failed call once more, with the same arguments
Retry ==
    /\ call.op \in BufferOps
    /\ call.out.kind = "Err"
    /\ again = NoCall
    /\ LET out == invoke(call.op, base, BufLen, call.size, call.align, call.count)
       IN  /\ again' = [op |-> call.op, out |-> out, pre |-> buf]
           /\ buf' = effect(buf, out)
    /\ UNCHANGED <<base, overflow_checks, ub_checks, call, heap_requests,
                   view, allocs, derived, report>>

Next ==
    \/ AllocZeroed
    \/ AllocZeroedWithRemainder
    \/ AllocZeroedSlice
    \/ AllocZeroedSliceWithRemainder
    \/ AllocZeroedDirect
    \/ AllocZeroedSliceDirect
    \/ AllocZeroedDerived
    \/ AllocZeroedBoxed
    \/ Retry

Spec == Init /\ [][Next]_vars

----------------------------------------------------------------------------
(* Chained allocation: each call is made on the remainder the previous    *)
(* call returned; between two calls the caller writes through the          *)
(* reference it was handed.                                                *)

\* counts of a chained alloc_zeroed_slice_with_remainder
ChainCounts == {0, 1, 2, Modulus \div 4, Modulus \div 4 + 1}

ChainBases == {1024, 1025}

\* the types allocated along a chain: a zero-sized one with an alignment,
\* u8, u16 and u32
ChainLayouts == {l \in Layouts : l.size = l.align \/ (l.size = 0 /\ l.align = 4)}

\* the bytes of mem the view v covers, as a buffer of its own
window(mem, v) == [i \in 0..(v.len - 1) |-> mem[v.off + i]]

\* mem with the bytes the view v covers replaced by sub
paste(mem, v, sub) ==
    [i \in DOMAIN mem |->
        IF v.off <= i /\ i < v.off + v.len THEN sub[i - v.off] ELSE mem[i]]

\* a write of the byte b through a reference to the bytes [lo, hi)
store(mem, lo, hi, b) ==
    [i \in DOMAIN mem |-> IF lo <= i /\ i < hi THEN b ELSE mem[i]]

InitChain ==
    /\ base \in ChainBases
    /\ \E n \in 0..MaxLen : buf = [i \in 0..(n - 1) |-> 255]
    /\ overflow_checks \in BOOLEAN
    /\ ub_checks \in BOOLEAN
    /\ call = NoCall
    /\ again = NoCall
    /\ heap_requests = << >>
    /\ view = [off |-> 0, len |-> BufLen]
    /\ allocs = << >>
    /\ derived = NoCall
    /\ report = NoCall

\* one call of op on the remainder in hand; the region returned is
\* [lo, hi), counted from the start of the whole buffer
ChainPerform(op, l, c) ==
    LET sub == window(buf, view)
        out == invoke(op, (base + view.off) % Modulus, view.len,
                      l.size, l.align, c)
        lo == view.off + out.off
    IN  /\ Len(allocs) < MaxChain
        /\ IF call = NoCall THEN TRUE ELSE call.out.kind = "Ok"
        /\ \A k \in 1..Len(allocs) : allocs[k].stored
        /\ call' = [op |-> op, size |-> l.size, align |-> l.align,
                    count |-> c, out |-> out, pre |-> sub]
        /\ buf' = paste(buf, view, effect(sub, out))
        /\ IF out.kind = "Ok"
           THEN /\ view' = [off |-> view.off + out.remOff, len |-> out.remLen]
                /\ allocs' = Append(allocs,
                       [lo |-> lo, hi |-> lo + l.size * out.n, stored |-> FALSE])
           ELSE UNCHANGED <<view, allocs>>
        /\ UNCHANGED <<base, overflow_checks, ub_checks, again, heap_requests,
                       derived, report>>

ChainAllocZeroed ==
    \E l \in ChainLayouts : ChainPerform("alloc_zeroed_with_remainder", l, 1)

ChainAllocZeroedSlice ==
    \E l \in ChainLayouts, c \in ChainCounts :
        ChainPerform("alloc_zeroed_slice_with_remainder", l, c)

\* the caller writes a value into the allocation it was handed last
ChainStore ==
    /\ allocs # << >>
    /\ ~allocs[Len(allocs)].stored
    /\ LET a == allocs[Len(allocs)] IN
          /\ buf' = store(buf, a.lo, a.hi, 255)
          /\ allocs' = [allocs EXCEPT ![Len(allocs)].stored = TRUE]
    /\ UNCHANGED <<base, overflow_checks, ub_checks, call, again,
                   heap_requests, view, derived, report>>

NextChain ==
    \/ ChainAllocZeroed
    \/ ChainAllocZeroedSlice
    \/ ChainStore

SpecChain == InitChain /\ [][NextChain]_vars

----------------------------------------------------------------------------
(* #[derive(AllocZeroed)]: the macro, as a function of the item it is      *)
(* applied to, and the compiler's verdict on what the macro returned.      *)

\* types a field may have
FieldTypes == {"u8", "u32", "bool", "String"}

\* the types that carry the marker: `unsafe impl AllocZeroed for ...`
HasMarker(ty) == ty \in {"u8", "u32", "bool"}

\* syn::Data
DataKinds == {"Struct", "Enum", "Union"}

\* syn::Fields
FieldsKinds == {"Named", "Unnamed", "Unit"}

\* the field types of an item, in declaration order
FieldLists == UNION {[1..n -> FieldTypes] : n \in 0..MaxFields}

\* DeriveInput: the items the macro can be applied to
DeriveInputs ==
    {i \in [data : DataKinds, fields : FieldsKinds, tys : FieldLists] :
        i.fields = "Unit" => i.tys = << >>}

\* syn::Error::new(..).to_compile_error()
CompileError(message) ==
    [kind |-> "CompileError", message |-> message, predicates |-> << >>]

\* the macro panicked: the compiler reports "proc-macro derive panicked"
MacroPanic ==
    [kind |-> "MacroPanic", message |-> "", predicates |-> << >>]

\* `unsafe impl AllocZeroed for #name where #ty: AllocZeroed, ...`
Impl(predicates) ==
    [kind |-> "Impl", message |-> "", predicates |-> predicates]

\* one predicate `#ty: AllocZeroed` per field, in order
where_predicates(tys) == [k \in 1..Len(tys) |-> tys[k]]

derive_alloc_zeroed(input) ==
    IF input.data # "Struct"
    THEN CompileError("AllocZeroed can only be derived for structs")
    ELSE IF input.fields = "Unnamed" /\ input.tys # << >>
    THEN MacroPanic      \* field.ident.as_ref().unwrap() on None
    ELSE Impl(where_predicates(input.tys))

\* the compiler accepts the returned impl: every predicate of its where
\* clause holds
accepted(out) ==
    /\ out.kind = "Impl"
    /\ \A k \in 1..Len(out.predicates) : HasMarker(out.predicates[k])

InitDerive ==
    /\ base = 1024
    /\ buf = << >>
    /\ overflow_checks = FALSE
    /\ ub_checks = FALSE
    /\ call = NoCall
    /\ again = NoCall
    /\ heap_requests = << >>
    /\ view = [off |-> 0, len |-> 0]
    /\ allocs = << >>
    /\ derived = NoCall
    /\ report = NoCall

\* the compiler expands #[derive(AllocZeroed)] on one item
Derive ==
    \E input \in DeriveInputs :
        /\ derived = NoCall
        /\ derived' = [op |-> "derive", input |-> input,
                       out |-> derive_alloc_zeroed(input)]
        /\ UNCHANGED <<base, buf, overflow_checks, ub_checks, call, again,
                       heap_requests, view, allocs, report>>

NextDerive == Derive

SpecDerive == InitDerive /\ [][NextDerive]_vars

----------------------------------------------------------------------------
(* AllocError: the values a caller can build and the inspection methods    *)

\* Option::Some(v), Option::None
Some(v) == [kind |-> "Some", val |-> v]

None == [kind |-> "None"]

\* the usize values the fields of a built error are drawn from
ErrSizes == {0, 1, 4, 5, MaxUsize}

ErrAligns == {1, 4}

\* AllocErrorKind: every value of the enum over ErrSizes and ErrAligns
AllocErrorKinds ==
    {BufferTooSmall(r, a, al) : r \in ErrSizes, a \in ErrSizes, al \in ErrAligns}
    \cup {OutOfMemory(r, al) : r \in ErrSizes, al \in ErrAligns}
    \cup {AlignmentFailed(al, ad) : al \in ErrAligns, ad \in ErrSizes}
    \cup {InvalidLayout(sz, al) : sz \in ErrSizes, al \in ErrAligns}

\* mutant of is_insufficient_memory: OutOfMemory is left out of the pattern
is_insufficient_memory_buffer_only(e) == e.kind = "BufferTooSmall"

is_insufficient_memory(e) == e.kind \in {"BufferTooSmall", "OutOfMemory"}

required_size(e) ==
    IF e.kind \in {"BufferTooSmall", "OutOfMemory"} THEN Some(e.required)
    ELSE None

\* format!("Increase buffer size by at least {} bytes", required - available):
\* the subtraction panics on underflow in a build with overflow checks and
\* wraps in one without
increase_by(required, available) ==
    IF required < available /\ overflow_checks
    THEN Panic
    ELSE Some(<<"Increase buffer size by at least",
                (required - available) % Modulus, "bytes">>)

suggestion(e) ==
    IF e.kind = "BufferTooSmall"
    THEN increase_by(e.required, e.available)
    ELSE IF e.kind = "AlignmentFailed"
    THEN Some(<<"Use a buffer aligned to", e.required_alignment, "bytes">>)
    ELSE None

InitError ==
    /\ base = 1024
    /\ buf = << >>
    /\ overflow_checks \in BOOLEAN
    /\ ub_checks = FALSE
    /\ call = NoCall
    /\ again = NoCall
    /\ heap_requests = << >>
    /\ view = [off |-> 0, len |-> 0]
    /\ allocs = << >>
    /\ derived = NoCall
    /\ report = NoCall

\* AllocError::builder(kind).build()
BuildError ==
    \E k \in AllocErrorKinds :
        /\ report = NoCall
        /\ report' = [op |-> "build", error |-> k, result |-> None]
        /\ UNCHANGED <<base, buf, overflow_checks, ub_checks, call, again,
                       heap_requests, view, allocs, derived>>

\* one inspection method called on the built error
Inspect(op, result) ==
    /\ report' = [op |-> op, error |-> report.error, result |-> result]
    /\ UNCHANGED <<base, buf, overflow_checks, ub_checks, call, again,
                   heap_requests, view, allocs, derived>>

Built == IF report = NoCall THEN FALSE ELSE report.op = "build"

IsInsufficientMemory ==
    /\ Built
    /\ Inspect("is_insufficient_memory", is_insufficient_memory(report.error))

RequiredSize ==
    /\ Built
    /\ Inspect("required_size", required_size(report.error))

Suggestion ==
    /\ Built
    /\ Inspect("suggestion", suggestion(report.error))

NextError ==
    \/ BuildError
    \/ IsInsufficientMemory
    \/ RequiredSize
    \/ Suggestion

SpecError == InitError /\ [][NextError]_vars

----------------------------------------------------------------------------
(* Vocabulary of the properties: the call that was made, stated            *)
(* independently of how the operations compute their result                *)

BufferCall == call.op \in BufferOps

Succeeded == call.op # "none" /\ call.out.kind = "Ok"

Failed == call.op # "none" /\ call.out.kind = "Err"

\* length of the buffer the call was made on
CallLen == Cardinality(DOMAIN call.pre)

\* the smallest o >= 0 with base + o divisible by align
ExactOffset(align) == CHOOSE o \in 0..(align - 1) : (base + o) % align = 0

\* bytes of the buffer behind the alignment padding, never negative
ExactAvailable(align) ==
    IF CallLen >= ExactOffset(align) THEN CallLen - ExactOffset(align) ELSE 0

\* byte offsets of the region the returned value or slice occupies:
\* [o, o + size(T) * count)
ReturnedRegion ==
    call.out.off .. (call.out.off + call.size * call.out.n - 1)

\* byte offsets of the skipped alignment padding [0, o)
PaddingRegion == 0 .. (call.out.off - 1)

\* byte offsets of the returned remainder
RemainderRegion ==
    call.out.remOff .. (call.out.remOff + call.out.remLen - 1)

MaxFitOps == {"alloc_zeroed_slice", "alloc_zeroed_slice_direct"}

WithRemainderOps ==
    {"alloc_zeroed_with_remainder", "alloc_zeroed_slice_with_remainder"}

----------------------------------------------------------------------------
(* Properties *)

\* C1 (zero-fill totality): after every successful buffer allocation every
\* byte of the returned region [o, o + size(T) * count) lies in the buffer
\* and reads as zero.
C1_ZeroFillTotality ==
    (BufferCall /\ Succeeded) =>
        \A i \in ReturnedRegion : i \in DOMAIN buf /\ buf[i] = 0

\* C2 (idempotent failure): a buffer allocation that returns an error leaves
\* every byte of the buffer as it was, and the same call made again returns
\* an error of the same kind with the same numeric fields.
C2_IdempotentFailure ==
    (BufferCall /\ Failed) =>
        /\ buf = call.pre
        /\ again # NoCall =>
              /\ again.out.kind = "Err"
              /\ again.out.err = call.out.err
              /\ again.pre = call.pre

\* a failed call on a buffer with non-zero bytes in its alignment padding
\* and behind it has been made a second time
C2_Witness ==
    /\ BufferCall /\ Failed
    /\ again # NoCall
    /\ call.out.err.kind = "BufferTooSmall"
    /\ ExactOffset(call.align) > 0
    /\ CallLen > ExactOffset(call.align)
    /\ \A i \in DOMAIN call.pre : call.pre[i] = 255

\* C3 (overflow safety): when count * size(T) exceeds usize::MAX,
\* alloc_zeroed_slice_with_remainder returns BufferTooSmall (or
\* InvalidLayout).
C3_OverflowSafety ==
    (call.op = "alloc_zeroed_slice_with_remainder"
        /\ call.size * call.count > MaxUsize) =>
        /\ call.out.kind = "Err"
        /\ call.out.err.kind \in {"BufferTooSmall", "InvalidLayout"}

\* C4 (buffer shorter than the offset): for a non-zero-sized T, a buffer
\* allocation on a buffer shorter than the alignment offset o returns a
\* value (it does not panic), and that value is a BufferTooSmall error
\* whenever at least one byte is required.
C4_ShortBufferReturns ==
    (BufferCall /\ call.size > 0 /\ CallLen < ExactOffset(call.align)) =>
        /\ call.out.kind \notin {"Panic", "Abort"}
        /\ (call.op \notin MaxFitOps /\ call.size * call.count >= 1) =>
              (call.out.kind = "Err" /\ call.out.err.kind = "BufferTooSmall")

\* C5 (disjointness): after a successful allocation with remainder the
\* padding [0, o), the allocated region [o, o + size(T) * count) and the
\* remainder [o + size(T) * count, len) are pairwise disjoint and their
\* union is the byte range of the buffer.
C5_Disjointness ==
    (call.op \in WithRemainderOps /\ Succeeded) =>
        /\ PaddingRegion \cap ReturnedRegion = {}
        /\ PaddingRegion \cap RemainderRegion = {}
        /\ ReturnedRegion \cap RemainderRegion = {}
        /\ PaddingRegion \cup ReturnedRegion \cup RemainderRegion = DOMAIN buf
        /\ call.out.remOff = call.out.off + call.size * call.out.n
        /\ call.out.remOff + call.out.remLen = CallLen

\* C6 (alignment guarantee): the start address of the region returned by a
\* successful allocation, from a buffer or from the heap, is divisible by
\* align(T).
C6_AlignmentGuarantee ==
    Succeeded => call.out.ptr % call.align = 0

\* a 4-aligned element was allocated from a buffer that starts off alignment
C6_Witness ==
    /\ BufferCall /\ Succeeded
    /\ call.size > 0 /\ call.align = 4
    /\ base % 4 # 0
    /\ call.out.ptr = base + ExactOffset(4)

\* C7 (effects confined): a successful buffer allocation changes no byte
\* outside the returned region: the padding, the remainder and the trailing
\* bytes of a max-fit allocation keep their values.
C7_EffectsConfined ==
    (BufferCall /\ Succeeded) =>
        /\ \A i \in DOMAIN buf : i \notin ReturnedRegion => buf[i] = call.pre[i]
        /\ \A i \in PaddingRegion : buf[i] = call.pre[i]
        /\ call.out.hasRem => \A i \in RemainderRegion : buf[i] = call.pre[i]
        /\ DOMAIN buf = DOMAIN call.pre

\* a max-fit allocation that skipped padding, zeroed non-zero bytes and left
\* a trailing partial element, all of the buffer being 0xFF before
C7_Witness ==
    /\ call.op = "alloc_zeroed_slice" /\ Succeeded
    /\ call.out.off > 0
    /\ call.out.bytes > 0
    /\ call.out.off + call.out.bytes < CallLen
    /\ \A i \in DOMAIN call.pre : call.pre[i] = 255
    /\ buf[call.out.off] = 0

\* C8 (max-fit needs one element): max-fit slice allocation of a
\* non-zero-sized T returns BufferTooSmall whenever fewer than size(T) bytes
\* are available after alignment; it does not return an empty slice.
C8_MaxFitTooSmall ==
    (call.op \in MaxFitOps /\ call.size > 0
        /\ ExactAvailable(call.align) < call.size) =>
        /\ call.out.kind = "Err"
        /\ call.out.err.kind = "BufferTooSmall"

\* C9 (max-fit count): a successful max-fit slice allocation of a
\* non-zero-sized T returns floor(available / size(T)) elements, available
\* being len - o: the greatest count whose bytes fit.  The aligned
\* ScenarioLen-byte buffer of 0xFF yields ScenarioLen / 4 elements of a
\* 4-byte T, all of their bytes zero.
C9_MaxFitCount ==
    (call.op \in MaxFitOps /\ call.size > 0 /\ Succeeded) =>
        LET available == CallLen - ExactOffset(call.align) IN
        /\ available >= 0
        /\ call.out.n = available \div call.size
        /\ call.out.n * call.size <= available
        /\ (call.out.n + 1) * call.size > available
        /\ call.out.off = ExactOffset(call.align)
        /\ (CallLen = ScenarioLen /\ call.size = 4) =>
              /\ call.out.n = ScenarioLen \div 4
              /\ \A i \in 0 .. (4 * (ScenarioLen \div 4) - 1) : buf[i] = 0

\* the scenario: the aligned ScenarioLen-byte buffer of 0xFF, 4-byte T
C9_Witness ==
    /\ call.op = "alloc_zeroed_slice" /\ Succeeded
    /\ CallLen = ScenarioLen
    /\ call.size = 4 /\ call.align = 4
    /\ \A i \in DOMAIN call.pre : call.pre[i] = 255
    /\ call.out.n = ScenarioLen \div 4

\* C10 (slice length): a successful alloc_zeroed_slice_with_remainder(buffer,
\* count) returns a slice of exactly count elements, for every T, and for a
\* non-zero-sized T a remainder of len - o - size(T) * count bytes.
C10_SliceLength ==
    (call.op = "alloc_zeroed_slice_with_remainder" /\ Succeeded) =>
        /\ call.out.n = call.count
        /\ call.size > 0 =>
              call.out.remLen = CallLen - ExactOffset(call.align) - call.size * call.count

SingleOps == {"alloc_zeroed", "alloc_zeroed_with_remainder", "alloc_zeroed_direct"}

\* C11 (zero-sized types): for a zero-sized T every buffer allocation
\* (single, max-fit, explicit count) succeeds on every buffer and for every
\* count, writes no byte and returns the whole buffer as remainder; the
\* max-fit slice has usize::MAX elements.
C11_ZstUniversality ==
    (BufferCall /\ call.size = 0) =>
        /\ call.out.kind = "Ok"
        /\ buf = call.pre
        /\ call.out.bytes = 0
        /\ call.out.hasRem => (call.out.remOff = 0 /\ call.out.remLen = CallLen)
        /\ call.op \in MaxFitOps => call.out.n = MaxUsize

\* a zero-sized T of alignment 4, explicit count, on an empty buffer that
\* starts off alignment
C11_Witness ==
    /\ call.op = "alloc_zeroed_slice_with_remainder" /\ Succeeded
    /\ call.size = 0 /\ call.align = 4
    /\ base % 4 # 0
    /\ CallLen = 0
    /\ call.count = 3

\* C12 (monotonic capacity): if alloc_zeroed_slice_with_remainder succeeds
\* for count, it succeeds for every smaller count on the same buffer.
C12_MonotonicCapacity ==
    (call.op = "alloc_zeroed_slice_with_remainder" /\ Succeeded) =>
        \A c \in Counts \cup (0..(MaxLen + 1)) :
            c < call.count =>
                alloc_zeroed_slice_with_remainder(
                    base, CallLen, call.size, call.align, c).kind = "Ok"

\* C13 (capacity threshold): for a non-zero-sized T and an aligned start,
\* single allocation succeeds iff len >= size(T); with len = size(T) the
\* remainder is empty; with len = size(T) - 1 it fails with BufferTooSmall,
\* required = size(T), available = size(T) - 1.
C13_CapacityThreshold ==
    (call.op \in SingleOps /\ call.size > 0 /\ base % call.align = 0) =>
        /\ call.out.kind \in {"Ok", "Err"}
        /\ call.out.kind = "Ok" <=> CallLen >= call.size
        /\ (call.out.hasRem /\ CallLen = call.size) => call.out.remLen = 0
        /\ CallLen = call.size - 1 =>
              /\ call.out.err.kind = "BufferTooSmall"
              /\ call.out.err.required = call.size
              /\ call.out.err.available = call.size - 1

\* an exact-size buffer at an aligned address: success, empty remainder
C13_Witness ==
    /\ call.op = "alloc_zeroed_with_remainder" /\ Succeeded
    /\ call.size = 4 /\ base % call.align = 0
    /\ CallLen = call.size
    /\ call.out.remLen = 0

\* C14 (error fields): a BufferTooSmall error of a non-zero-sized T carries
\* required = size(T) * count (size(T) for single allocation), available =
\* max(len - o, 0) and alignment = align(T).
C14_ErrorFields ==
    (BufferCall /\ call.size > 0 /\ Failed
        /\ call.out.err.kind = "BufferTooSmall") =>
        /\ call.out.err.required =
              (IF call.op = "alloc_zeroed_slice_with_remainder"
               THEN call.size * call.count ELSE call.size)
        /\ call.out.err.available = ExactAvailable(call.align)
        /\ call.out.err.alignment = call.align

HeapCall == call.op = "alloc_zeroed_boxed"

\* C15 (heap allocation): heap allocation of a non-zero-sized T asks the
\* allocator once, for size(T) bytes at align(T); a null answer is returned
\* as OutOfMemory with required = size(T), alignment = align(T), without a
\* second request; any other answer is returned as the owned value.
C15_HeapAllocation ==
    (HeapCall /\ call.size > 0) =>
        /\ heap_requests = <<[size |-> call.size, align |-> call.align]>>
        /\ call.block = 0 =>
              /\ call.out.kind = "Err"
              /\ call.out.err = OutOfMemory(call.size, call.align)
        /\ call.block # 0 =>
              /\ call.out.kind = "Ok"
              /\ call.out.ptr = call.block

\* the allocator answered null to a request for a 4-byte T
C15_Witness ==
    /\ HeapCall
    /\ call.size = 4 /\ call.align = 4
    /\ call.block = 0
    /\ call.out.kind = "Err"
    /\ Len(heap_requests) = 1

\* C16 (zero-sized heap allocation): heap allocation of a zero-sized T
\* succeeds without a request to the allocator, also when the allocator
\* would answer null, and its handle has a non-null address.
C16_ZstHeap ==
    (HeapCall /\ call.size = 0) =>
        /\ call.out.kind = "Ok"
        /\ heap_requests = << >>
        /\ call.out.ptr # 0
        /\ call.out.ptr % call.align = 0

\* a zero-sized T boxed while the allocator would answer null
C16_Witness ==
    /\ HeapCall /\ Succeeded
    /\ call.size = 0 /\ call.align = 4
    /\ call.block = 0

SameAllocation(a, b) ==
    /\ a.kind = b.kind
    /\ a.err = b.err
    /\ a.ptr = b.ptr
    /\ a.off = b.off
    /\ a.bytes = b.bytes

\* C19 (delegation): alloc_zeroed_with_remainder(buffer) is
\* alloc_zeroed_slice_with_remainder(buffer, 1) with the first element and
\* the same remainder, and alloc_zeroed(buffer) is that with the remainder
\* dropped: same success or failure, same error, same allocated bytes, same
\* buffer afterwards.
C19_Delegation ==
    (call.op \in {"alloc_zeroed", "alloc_zeroed_with_remainder"}) =>
        LET r == alloc_zeroed_slice_with_remainder(
                     base, CallLen, call.size, call.align, 1)
        IN  /\ SameAllocation(call.out, r)
            /\ buf = effect(call.pre, r)
            /\ call.out.kind = "Ok" => call.out.n = 1
            /\ call.op = "alloc_zeroed_with_remainder" =>
                  /\ call.out.hasRem = r.hasRem
                  /\ call.out.remOff = r.remOff
                  /\ call.out.remLen = r.remLen
            /\ call.op = "alloc_zeroed" => ~call.out.hasRem

\* a single allocation that skipped padding and left a remainder of more
\* than one further element
C19_Witness ==
    /\ call.op = "alloc_zeroed_with_remainder" /\ Succeeded
    /\ call.size = 2
    /\ call.out.off = 1
    /\ call.out.remLen >= 4

\* bytes of the whole buffer the k-th allocation of the chain occupies
ChainRegion(k) == allocs[k].lo .. (allocs[k].hi - 1)

\* C17 (chained allocation): the regions returned along a chain are
\* pairwise disjoint, and what the caller wrote into an earlier region is
\* still there after every later call.
C17_ChainedAllocation ==
    /\ \A j, k \in 1..Len(allocs) :
          j < k => ChainRegion(j) \cap ChainRegion(k) = {}
    /\ \A k \in 1..Len(allocs) :
          allocs[k].stored =>
              \A i \in ChainRegion(k) \cap DOMAIN buf : buf[i] = 255

\* the macro has been applied to an item
Derived == derived # NoCall

\* every field type of the item carries the marker
AllPartsMarked ==
    \A k \in 1..Len(derived.input.tys) : HasMarker(derived.input.tys[k])

\* C20 (marker propagation): the macro emits the marker for a struct only
\* under one constraint per field type, it rejects an enum or a union with
\* a compile error, and so a struct it is applied to carries the marker if
\* and only if every one of its field types does.
C20_MarkerPropagation ==
    Derived =>
        /\ derived.input.data # "Struct" => derived.out.kind = "CompileError"
        /\ derived.out.kind = "Impl" =>
              /\ Len(derived.out.predicates) = Len(derived.input.tys)
              /\ \A k \in 1..Len(derived.input.tys) :
                    derived.out.predicates[k] = derived.input.tys[k]
        /\ derived.input.data = "Struct" =>
              (accepted(derived.out) <=> AllPartsMarked)

\* the inspection method op has been called on the built error
Inspected(op) == report # NoCall /\ report.op = op

\* C21 (error inspection): is_insufficient_memory() is true exactly for
\* BufferTooSmall and OutOfMemory; required_size() is Some(required) for
\* exactly those two kinds and None for AlignmentFailed and InvalidLayout.
C21_ErrorInspection ==
    /\ Inspected("is_insufficient_memory") =>
          (report.result = TRUE <=>
              report.error.kind \in {"BufferTooSmall", "OutOfMemory"})
    /\ Inspected("required_size") =>
          /\ report.error.kind \in {"BufferTooSmall", "OutOfMemory"} =>
                report.result = Some(report.error.required)
          /\ report.error.kind \in {"AlignmentFailed", "InvalidLayout"} =>
                report.result = None

\* is_insufficient_memory() has answered for an OutOfMemory error
C21_Witness ==
    /\ Inspected("is_insufficient_memory")
    /\ report.error.kind = "OutOfMemory"
    /\ report.result = TRUE

\* C26 (suggestion on any BufferTooSmall): suggestion() returns a
\* remediation for every BufferTooSmall value, also one built with
\* required <= available, and the number it names is required - available:
\* no panic, no wrapped difference.
C26_SuggestionTotal ==
    (Inspected("suggestion") /\ report.error.kind = "BufferTooSmall") =>
        /\ report.result.kind = "Some"
        /\ report.result.val[2] = report.error.required - report.error.available

\* C25 (allocator-produced BufferTooSmall): every BufferTooSmall an
\* allocation operation returns has required > available, so the
\* suggestion computed from it does not underflow and names the positive
\* byte count required - available.
C25_RequiredExceedsAvailable ==
    /\ (Failed /\ call.out.err.kind = "BufferTooSmall") =>
          LET e == call.out.err IN
          /\ e.required > e.available
          /\ suggestion(e) =
                Some(<<"Increase buffer size by at least",
                       e.required - e.available, "bytes">>)
    /\ (again # NoCall /\ again.out.kind = "Err"
            /\ again.out.err.kind = "BufferTooSmall") =>
          again.out.err.required > again.out.err.available

\* a slice allocation failed one byte short of its requirement
C25_Witness ==
    /\ Failed
    /\ call.op = "alloc_zeroed_slice_with_remainder"
    /\ call.out.err.kind = "BufferTooSmall"
    /\ call.out.err.required = 4
    /\ call.out.err.available = 3
    /\ overflow_checks

\* the aligned address start + o lies within the address space
AlignedAddressExists(align) == base + ExactOffset(align) <= MaxUsize

\* C22 (offset computation): for a non-zero-sized T the offset a buffer
\* allocation uses is the smallest o >= 0 with start + o divisible by
\* align(T), so o < align(T); when start + o lies beyond the address space
\* the call fails with AlignmentFailed(align(T), start).
C22_OffsetComputation ==
    (BufferCall /\ call.size > 0 /\ call.out.kind # "Panic") =>
        LET o == ExactOffset(call.align) IN
        IF AlignedAddressExists(call.align)
        THEN /\ call.out.kind \in {"Ok", "Abort"} =>
                  call.out.off = o /\ o < call.align
             /\ call.out.kind = "Err" =>
                  /\ call.out.err.kind = "BufferTooSmall"
                  /\ call.out.err.available = ExactAvailable(call.align)
        ELSE call.out = Err(AlignmentFailed(call.align, base))

\* C23 (generated capacity check): the alloc_zeroed body the derive macro
\* generates returns None whenever the alignment offset exceeds the buffer
\* length; it neither panics nor goes on to write outside the buffer.
C23_DerivedCapacityCheck ==
    (call.op = "alloc_zeroed_derived" /\ ExactOffset(call.align) > CallLen) =>
        call.out.kind = "None"

\* C24 (revision equivalence): on every buffer and for every layout the
\* direct alloc_zeroed of the earlier revision and the delegating
\* alloc_zeroed of the current one have the same outcome: same success or
\* failure, same error with the same fields, same allocated bytes, same
\* buffer afterwards.
C24_RevisionEquivalence ==
    /\ call.op = "alloc_zeroed" =>
          LET d == alloc_zeroed_direct(base, CallLen, call.size, call.align)
          IN  call.out = d /\ buf = effect(call.pre, d)
    /\ call.op = "alloc_zeroed_direct" =>
          LET c == alloc_zeroed(base, CallLen, call.size, call.align)
          IN  call.out = c /\ buf = effect(call.pre, c)

\* the direct revision has allocated behind alignment padding in a buffer
\* that was not zero
C24_Witness ==
    /\ call.op = "alloc_zeroed_direct" /\ Succeeded
    /\ call.size = 4
    /\ call.out.off = 3
    /\ \E i \in ReturnedRegion : call.pre[i] = 255

\* C29 (explicit count 0): for a non-zero-sized T and a buffer with
\* o <= len, alloc_zeroed_slice_with_remainder(buffer, 0) succeeds with an
\* empty slice, changes no byte of the buffer and returns buffer[o..] as
\* the remainder: the padding [0, o) is not part of it.
C29_CountZero ==
    (/\ call.op = "alloc_zeroed_slice_with_remainder"
     /\ call.size > 0
     /\ call.count = 0
     /\ ExactOffset(call.align) <= CallLen) =>
        /\ Succeeded
        /\ call.out.n = 0
        /\ buf = call.pre
        /\ call.out.hasRem
        /\ call.out.remOff = ExactOffset(call.align)
        /\ call.out.remLen = CallLen - ExactOffset(call.align)

\* a count of 0 on a buffer that starts three bytes before a boundary
C29_Witness ==
    /\ call.op = "alloc_zeroed_slice_with_remainder" /\ Succeeded
    /\ call.size = 4
    /\ call.count = 0
    /\ call.out.remOff = 3
    /\ call.out.remLen = 2

\* the last call of the chain succeeded for a non-zero-sized T with a
\* count of at least 1
ChainStepNonEmpty ==
    /\ call # NoCall
    /\ call.out.kind = "Ok"
    /\ call.size > 0
    /\ call.count >= 1

\* number of regions handed out so far that hold at least s bytes
SuccessesOfSize(s) ==
    Cardinality({k \in 1..Len(allocs) : allocs[k].hi - allocs[k].lo >= s})

\* C27 (chained allocation terminates): a successful allocation of
\* count >= 1 elements of a non-zero-sized T from the previous remainder
\* returns a remainder shorter by at least size(T) * count bytes, so along
\* a chain at most floor(len / size(T)) allocations of T succeed.
C27_ChainTerminates ==
    /\ ChainStepNonEmpty =>
          view.len + call.size * call.count <= Cardinality(DOMAIN call.pre)
    /\ \A l \in Layouts :
          l.size > 0 => SuccessesOfSize(l.size) * l.size <= BufLen

\* the remainder in hand starts at an address aligned for the type of the
\* last call
RemainderAligned == (base + view.off) % call.align = 0

\* the last call was a single allocation of a non-zero-sized T on a chain
\* that so far handed out regions of size(T) bytes only, in a buffer with
\* an aligned start and a length that is a multiple of size(T)
SequentialSingles ==
    /\ call # NoCall
    /\ call.op = "alloc_zeroed_with_remainder"
    /\ call.size > 0
    /\ base % call.align = 0
    /\ BufLen % call.size = 0
    /\ \A k \in 1..Len(allocs) : allocs[k].hi - allocs[k].lo = call.size

\* of a buffer of n * size(T) bytes exactly n single allocations succeed,
\* each at offset 0 of its remainder, the last one leaves an empty
\* remainder, and the next call fails with BufferTooSmall, available = 0
ExactlyNSingles ==
    SequentialSingles =>
        LET n == BufLen \div call.size IN
        /\ call.out.kind \in {"Ok", "Err"}
        /\ call.out.kind = "Ok" =>
              /\ Len(allocs) <= n
              /\ call.out.off = 0
              /\ view.off = Len(allocs) * call.size
              /\ view.len = BufLen - view.off
        /\ call.out.kind = "Err" =>
              /\ Len(allocs) = n
              /\ call.out.err = BufferTooSmall(call.size, 0, call.align)

\* C28 as stated, for every T: after a successful allocation of count >= 1
\* elements the remainder starts aligned for T, and a buffer of n * size(T)
\* bytes with an aligned start takes exactly n single allocations.
C28_RemainderAligned ==
    /\ (call # NoCall /\ call.out.kind = "Ok" /\ call.count >= 1) =>
          RemainderAligned
    /\ ExactlyNSingles

\* C28, amended to non-zero-sized T: after a successful allocation of
\* count >= 1 elements of a non-zero-sized T the remainder starts aligned
\* for T, and a buffer of n * size(T) bytes with an aligned start takes
\* exactly n single allocations.
C28_RemainderAlignedNonZst ==
    /\ ChainStepNonEmpty => RemainderAligned
    /\ ExactlyNSingles

\* three u16 were allocated from a 6-byte buffer and the fourth call failed
C28_Witness ==
    /\ SequentialSingles
    /\ call.size = 2
    /\ call.out.kind = "Err"
    /\ Len(allocs) = 3
    /\ view.len = 0

====
